---------------------------- MODULE Spec2Model ----------------------------
(***************************************************************************)
(* A model of claudemon: the donut gauge (widgets/pie_chart.py), the       *)
(* colour thresholds (widgets/stats_panel.py), the credential lookup and   *)
(* the plan detection (auth.py), the refresh loop of the application       *)
(* (app.py), the command line (__main__.py), the quota parser (api.py),    *)
(* the configuration file (config.py) and the countdown (models.py).       *)
(*                                                                         *)
(* Python floats are modelled in fixed point: lengths in 1/LenUnit of a    *)
(* terminal row, angles in 1/AngleUnit of a radian.  Percentages are       *)
(* whole numbers.  Python's None is the string "None" where a string is    *)
(* expected.                                                               *)
(***************************************************************************)
EXTENDS Integers, Sequences, FiniteSets, TLC

VARIABLES
    \* ---- a PieChart widget (widgets/pie_chart.py)
    usage_pct,      \* PieChart.usage_pct
    label,          \* PieChart.label, a sequence of characters
    reset_time,     \* PieChart.reset_time: a datetime, or NoDatetime for None
    display,        \* what _update_display() put on the screen
    \* ---- the clock and the timezone of the machine
    now_utc,        \* the current instant, in minutes since the epoch (UTC)
    local_off,      \* the UTC offset of the system timezone, in minutes
    reset_str,      \* the last result of _format_reset_time (<<>>: not called)
    \* ---- the credential stores (auth.py)
    platform,       \* platform.system()
    keychain,       \* the keychain item "Claude Code-credentials"
    cred_file,      \* ~/.claude/.credentials.json
    token_file,     \* claudemon's own token.json
    auth_call,      \* the last call of get_oauth_token / is_authenticated
    \* ---- the application (app.py)
    mounted,        \* on_mount has run
    has_charts,     \* compose() built the charts and the stats panel
    timers,         \* on_mount installed the interval timers
    header,         \* HeaderBar: plan_type, last_refresh_ago, is_loading,
                    \* error_message
    quota_data,     \* ClaudemonApp.quota_data
    session_chart,  \* the PieChart #session-chart
    weekly_chart,   \* the PieChart #weekly-chart
    stats_quota_data,       \* StatsPanel.quota_data
    last_refresh,           \* ClaudemonApp._last_refresh
    last_weekly_refresh,    \* ClaudemonApp._last_weekly_refresh
    clock,          \* time.time(), in ticks
    workers,        \* the workers of the app that have not ended
    \* ---- the command line (__main__.py)
    argv,           \* sys.argv[1:]
    cli_outcome,    \* what main() did with it
    \* ---- plan detection (auth.py)
    usage_answer,   \* what the usage endpoint answers to a GET
    plan_call,      \* the last result of detect_plan_type
    \* ---- the quota parser (api.py)
    usage_json,     \* the body of the usage endpoint's answer, resp.json()
    parsed,         \* the last result of _parse_quota_response
    \* ---- the configuration (config.py)
    config_file,    \* ~/.config/claudemon/config.toml
    config_call,    \* the last call of set_config_value / get_config_value
    \* ---- the countdown of the stats panel (models.py)
    total_seconds,  \* the argument of format_countdown
    remaining,      \* the last value of a remaining-seconds property, or <<>>
    countdown       \* the last result of format_countdown, or <<>>

None == "None"

-----------------------------------------------------------------------------
(* Bounds of the model.                                                    *)

\* usage_pct ranges over -PctMargin .. 100 + PctMargin
PctMargin == 4
\* the longest label is MaxLabelLen characters (wider than the grid)
MaxLabelLen == 24

-----------------------------------------------------------------------------
(* Fixed-point arithmetic standing for Python's floats.                    *)

\* one terminal row (1.0) in length units
LenUnit == 100
\* one radian in angle units
AngleUnit == 1000000
\* math.pi in angle units, rounded to a multiple of 800: quarter and eighth
\* turns are then exact, as they are in binary floating point
Pi == 3141600

RECURSIVE IsqrtIter(_, _)
IsqrtIter(n, x) ==
    LET y == (x + n \div x) \div 2
    IN  IF y >= x THEN x ELSE IsqrtIter(n, y)

\* math.sqrt on a sum of squares of lengths: the result is a length
Sqrt(n) == IF n = 0 THEN 0 ELSE IsqrtIter(n, n)

\* the alternating series pw/k - pw*t^2/(k+2) + ..., t = a/b
RECURSIVE AtanSum(_, _, _, _)
AtanSum(pw, a, b, k) ==
    IF pw = 0 THEN 0
    ELSE pw \div k - AtanSum((((pw * a) \div b) * a) \div b, a, b, k + 2)

\* atan(a/b) for 0 <= a <= b, b > 0; an argument above 2/5 is reduced by
\* atan(t) = pi/4 - atan((1-t)/(1+t))
Atan01(a, b) ==
    IF 5 * a > 2 * b
    THEN Pi \div 4 - AtanSum(((b - a) * AngleUnit) \div (b + a), b - a, b + a, 1)
    ELSE AtanSum((a * AngleUnit) \div b, a, b, 1)

\* the angle of the vector (x, y), x >= 0, y >= 0, not both 0: in [0, pi/2]
AtanQuadrant(y, x) ==
    IF y <= x THEN Atan01(y, x) ELSE Pi \div 2 - Atan01(x, y)

\* math.atan2(y, x): in (-pi, pi]
Atan2(y, x) ==
    IF y >= 0
    THEN IF x >= 0 THEN AtanQuadrant(y, x) ELSE Pi - AtanQuadrant(y, -x)
    ELSE IF x >= 0 THEN -AtanQuadrant(-y, x) ELSE -(Pi - AtanQuadrant(-y, -x))

\* int(x / 2) for an integer x: Python's int() truncates toward zero
IntHalf(x) == IF x >= 0 THEN x \div 2 ELSE -((-x) \div 2)

-----------------------------------------------------------------------------
(* PieChart._get_color and StatsPanel._usage_color                         *)

\* the boundaries taken on the wrong side
GetColorInclusive(pct) ==
    IF pct <= 50 THEN "green"
    ELSE IF pct <= 80 THEN "yellow"
    ELSE "red"

_get_color(pct) ==
    IF pct < 50 THEN "green"
    ELSE IF pct < 80 THEN "yellow"
    ELSE "red"

_usage_color(pct) ==
    IF pct < 50 THEN "green"
    ELSE IF pct < 80 THEN "yellow"
    ELSE "red"

-----------------------------------------------------------------------------
(* PieChart._render_donut: the rasterization of the ring                   *)

OuterR == 5
InnerR == 3

Rows == 2 * OuterR + 1
Cols == 4 * OuterR + 1
CenterY == OuterR
CenterX == 2 * OuterR

Max(a, b) == IF a >= b THEN a ELSE b
Min(a, b) == IF a <= b THEN a ELSE b

\* pct = max(0.0, min(100.0, self.usage_pct))
ClampPct(p) == Max(0, Min(100, p))

\* half a turn for the whole gauge
UsedAngleHalfTurn(pct) == (Pi * pct) \div 100

\* used_angle = 2 * math.pi * (pct / 100.0)
UsedAngle(pct) == (2 * Pi * pct) \div 100

\* dy = row - center_y ; dx = (col - center_x) / 2.0
Dy(row) == (row - CenterY) * LenUnit
Dx(col) == ((col - CenterX) * LenUnit) \div 2

\* dist = math.sqrt(dx * dx + dy * dy)
Dist(row, col) == Sqrt(Dx(col) * Dx(col) + Dy(row) * Dy(row))

\* the two circles themselves left out
OnRingStrict(row, col) ==
    /\ InnerR * LenUnit < Dist(row, col)
    /\ Dist(row, col) < OuterR * LenUnit

\* inner_r <= dist <= outer_r
OnRing(row, col) ==
    /\ InnerR * LenUnit <= Dist(row, col)
    /\ Dist(row, col) <= OuterR * LenUnit

\* the sign of dy forgotten: the sweep starts at 6 o'clock
AngleFromBottom(row, col) ==
    LET a == Atan2(Dx(col), Dy(row))
    IN  IF a < 0 THEN a + 2 * Pi ELSE a

\* angle = math.atan2(dx, -dy); if angle < 0: angle += 2 * math.pi
Angle(row, col) ==
    LET a == Atan2(Dx(col), -Dy(row))
    IN  IF a < 0 THEN a + 2 * Pi ELSE a

\* the angle of every ring cell (rows and columns counted from 0)
CellAngle ==
    [row \in 0 .. Rows - 1 |->
        [col \in 0 .. Cols - 1 |->
            IF OnRing(row, col) THEN Angle(row, col) ELSE -1]]

FILLED == "█"
UNFILLED == "░"
BLANK == " "

\* the comparison turned round
IsFilledReversed(angle, used_angle) == angle >= used_angle

\* angle <= used_angle
IsFilled(angle, used_angle) == angle <= used_angle

\* one cell of the grid, as (char, style)
RingCell(row, col, used_angle, color) ==
    IF CellAngle[row][col] >= 0
    THEN IF IsFilled(CellAngle[row][col], used_angle)
         THEN <<FILLED, color>>
         ELSE <<UNFILLED, "bright_black">>
    ELSE <<BLANK, "">>

\* the grid after the two loops: a sequence of Rows lines of Cols cells
\* (line r of the model is row r - 1 of the code)
RingGrid(pct) ==
    [r \in 1 .. Rows |->
        [c \in 1 .. Cols |->
            RingCell(r - 1, c - 1, UsedAngle(pct), _get_color(pct))]]

-----------------------------------------------------------------------------
(* PieChart._render_donut: the text laid over the grid                     *)

DigitChars == <<"0", "1", "2", "3", "4", "5", "6", "7", "8", "9">>

RECURSIVE Digits(_)
Digits(n) ==
    IF n < 10 THEN <<DigitChars[n + 1]>>
    ELSE Append(Digits(n \div 10), DigitChars[(n % 10) + 1])

\* pct_str = f"{pct:.0f}%"
PctStr(pct) == Append(Digits(pct), "%")

\* if 0 <= col_idx < cols
InGrid(col_idx) == 0 <= col_idx /\ col_idx < Cols

\* the characters inserted into the line instead of written over it
RECURSIVE PlaceTextInsert(_, _, _, _, _)
PlaceTextInsert(line, start, text, style, i) ==
    IF i > Len(text) THEN line
    ELSE LET col_idx == start + (i - 1)
         IN  PlaceTextInsert(IF InGrid(col_idx)
                             THEN SubSeq(line, 1, col_idx)
                                  \o <<<<text[i], style>>>>
                                  \o SubSeq(line, col_idx + 1, Len(line))
                             ELSE line,
                             start, text, style, i + 1)

\* for i, ch in enumerate(text): col_idx = start + i; if 0 <= col_idx < cols:
\*     line[col_idx] = (ch, style)            (i counts from 1 here)
RECURSIVE PlaceText(_, _, _, _, _)
PlaceText(line, start, text, style, i) ==
    IF i > Len(text) THEN line
    ELSE LET col_idx == start + (i - 1)
         IN  PlaceText(IF InGrid(col_idx)
                       THEN [line EXCEPT ![col_idx + 1] = <<text[i], style>>]
                       ELSE line,
                       start, text, style, i + 1)

\* f"bold {color}"
BoldStyle(color) ==
    CASE color = "green"  -> "bold green"
      [] color = "yellow" -> "bold yellow"
      [] OTHER            -> "bold red"

\* center_row = rows // 2
CenterRow == Rows \div 2

\* start_col = int(center_x - len(pct_str) / 2)
StartCol(text) == IntHalf(2 * CenterX - Len(text))

\* the percentage on the centre row, the label on the row below it
Overlay(grid, pct, lbl) ==
    LET color     == _get_color(pct)
        withPct   == [grid EXCEPT ![CenterRow + 1] =
                         PlaceText(@, StartCol(PctStr(pct)), PctStr(pct),
                                   BoldStyle(color), 1)]
        label_row == CenterRow + 1
    IN  IF label_row < Rows
        THEN [withPct EXCEPT ![label_row + 1] =
                 PlaceText(@, StartCol(lbl), lbl, "dim", 1)]
        ELSE withPct

-----------------------------------------------------------------------------
(* PieChart._format_reset_time.  A datetime is [kind, wall, off]: the      *)
(* reading of the wall clock in minutes since the epoch and the UTC offset *)
(* of its timezone in minutes; kind is "aware", or "naive" for a datetime  *)
(* without a timezone (off is 0 and unused: Python reads it as local       *)
(* time), or "none" for None.  The epoch is the 1st of January of a common *)
(* year.                                                                   *)

NoDatetime == [kind |-> "none", wall |-> 0, off |-> 0]
Aware(w, o) == [kind |-> "aware", wall |-> w, off |-> o]
Naive(w) == [kind |-> "naive", wall |-> w, off |-> 0]

MinutesPerDay == 24 * 60

\* the instant of a datetime, in minutes (UTC)
UtcOf(dt, local) ==
    IF dt.kind = "naive" THEN dt.wall - local ELSE dt.wall - dt.off

\* datetime.now(reset.tzinfo)
DatetimeNow(reset, utc, local) ==
    IF reset.kind = "naive" THEN Naive(utc + local)
    ELSE Aware(utc + reset.off, reset.off)

\* dt.astimezone(): the same instant in the system timezone
AsTimezone(dt, local) == Aware(UtcOf(dt, local) + local, local)

\* dt.date(), as the number of days since the epoch
DateOf(dt) == dt.wall \div MinutesPerDay

MonthNames ==
    <<"jan", "feb", "mar", "apr", "may", "jun",
      "jul", "aug", "sep", "oct", "nov", "dec">>
MonthDays == <<31, 28, 31, 30, 31, 30, 31, 31, 30, 31, 30, 31>>

RECURSIVE CivilFrom(_, _)
CivilFrom(d, m) ==
    IF d < MonthDays[m] THEN <<m, d + 1>> ELSE CivilFrom(d - MonthDays[m], m + 1)

\* strftime("%-I:%M%p").lower()
StrfTime(dt) ==
    LET hour   == (dt.wall % MinutesPerDay) \div 60
        minute == dt.wall % 60
        h12    == IF hour % 12 = 0 THEN 12 ELSE hour % 12
    IN  Digits(h12) \o <<":">>
        \o (IF minute < 10 THEN <<"0">> ELSE <<>>) \o Digits(minute)
        \o <<IF hour < 12 THEN "am" ELSE "pm">>

\* strftime("%b %-d at %-I:%M%p").lower()
StrfDateTime(dt) ==
    LET md == CivilFrom(DateOf(dt), 1)
    IN  <<MonthNames[md[1]], " ">> \o Digits(md[2]) \o <<" at ">> \o StrfTime(dt)

\* the date read in the reset's own timezone: reset.date()
ResetDateOwnZone(reset, local) == DateOf(reset)

\* the date the reset is compared by: local_reset.date()
ResetDate(reset, local) == DateOf(AsTimezone(reset, local))

_format_reset_time(reset, utc, local) ==
    LET now         == DatetimeNow(reset, utc, local)
        local_reset == AsTimezone(reset, local)
        today       == DateOf(AsTimezone(now, local))
    IN  IF ResetDate(reset, local) = today
        THEN StrfTime(local_reset)
        ELSE IF ResetDate(reset, local) = today + 1
        THEN <<"tomorrow at ">> \o StrfTime(local_reset)
        ELSE StrfDateTime(local_reset)

-----------------------------------------------------------------------------
(* PieChart._render_donut and PieChart._update_display                     *)

\* right_lines: the rows that get text to the right of the donut
RightLines(rt, utc, local) ==
    IF rt = NoDatetime THEN <<>>
    ELSE <<[row |-> CenterRow - 1, text |-> <<"Resets">>, style |-> "dim"],
           [row |-> CenterRow,
            text |-> _format_reset_time(rt, utc, local), style |-> "dim bold"]>>

\* the grid of every clamped percentage, computed once
RingGrids == [pct \in 0 .. 100 |-> RingGrid(pct)]

\* ring is the grid before the text is laid over it, grid the grid after
_render_donut(p, lbl, rt, utc, local) ==
    LET pct == ClampPct(p)
    IN  [ring        |-> RingGrids[pct],
         grid        |-> Overlay(RingGrids[pct], pct, lbl),
         right_lines |-> RightLines(rt, utc, local)]

-----------------------------------------------------------------------------
(* auth.py: the credential stores.  What a reader returns is a document:   *)
(*   kind "absent": None (no item or file, or it cannot be read or parsed) *)
(*   kind "empty":  the JSON object {}                                     *)
(*   kind "other":  a JSON object without the key claudeAiOauth            *)
(*   kind "oauth":  {"claudeAiOauth": {...}}, accessToken being the value  *)
(*                  of that key there (None: the key is missing)           *)
(* The token cache is "absent" or kind "dict", oauth_token being the value *)
(* of the key oauth_token (None: the key is missing).                      *)

CredDoc(k, t) == [kind |-> k, accessToken |-> t, subscriptionType |-> <<>>]
TokenDoc(k, t) == [kind |-> k, oauth_token |-> t]
AbsentCreds == CredDoc("absent", None)
AbsentToken == TokenDoc("absent", None)

\* Python's truth value of a string or None
Truthy(str) == str # None /\ str # ""

\* _read_keychain_credentials
_read_keychain_credentials ==
    IF platform # "Darwin" THEN AbsentCreds ELSE keychain

\* _read_file_credentials
_read_file_credentials == cred_file

\* data and data.get("claudeAiOauth", {}).get("accessToken")
HasAccessToken(data) ==
    /\ data.kind \notin {"absent", "empty"}
    /\ data.kind = "oauth"
    /\ Truthy(data.accessToken)

\* the file read before the keychain
ReadersFileFirst == <<_read_file_credentials, _read_keychain_credentials>>

\* for reader in (_read_keychain_credentials, _read_file_credentials)
Readers == <<_read_keychain_credentials, _read_file_credentials>>

\* for reader in (...): the first document with an access token, or None
RECURSIVE FirstWithToken(_, _)
FirstWithToken(docs, i) ==
    IF i > Len(docs) THEN AbsentCreds
    ELSE IF HasAccessToken(docs[i]) THEN docs[i]
    ELSE FirstWithToken(docs, i + 1)

\* _get_claude_code_credentials
_get_claude_code_credentials == FirstWithToken(Readers, 1)

\* load_token
load_token == token_file

\* get_oauth_token
get_oauth_token ==
    LET creds == _get_claude_code_credentials
    IN  IF creds.kind # "absent" THEN creds.accessToken
        ELSE IF load_token.kind = "absent" THEN None
        ELSE load_token.oauth_token

\* is_authenticated
is_authenticated == get_oauth_token # None

\* store_token(token_data)
store_token(token_data) == token_data

-----------------------------------------------------------------------------
(* api.py and models.py: what fetch_quota returns or raises.               *)

QuotaData(p5, r5, p7, r7, plan) ==
    [is_none |-> FALSE,
     five_hour_usage_pct |-> p5, five_hour_reset_time |-> r5,
     seven_day_usage_pct |-> p7, seven_day_reset_time |-> r7,
     plan_type |-> plan]

\* None where a QuotaData is expected
NoQuota ==
    [is_none |-> TRUE,
     five_hour_usage_pct |-> 0, five_hour_reset_time |-> NoDatetime,
     seven_day_usage_pct |-> 0, seven_day_reset_time |-> NoDatetime,
     plan_type |-> None]

\* how the await of fetch_quota ends: it returns, or raises for a 401, a
\* 403, another status, a network error, or anything else
FetchErrors == {"401", "403", "status", "network", "other"}

\* str(e) of the exception raised
ErrorText(outcome) ==
    CASE outcome = "401" ->
           "OAuth token is invalid or expired. Run 'claudemon setup' to re-authenticate."
      [] outcome = "403" ->
           "Access denied. Your token may lack the required permissions."
      [] outcome = "status" -> "API returned status 500: overloaded"
      [] outcome = "network" -> "Network error: timed out"
      [] OTHER -> "Expecting value: line 1 column 1 (char 0)"

\* a message of the header: the prefix the handler puts before str(e)
Message(prefix, text) == [prefix |-> prefix, text |-> text]
NoMessage == Message("", "")

\* str(e) shown without a prefix, whatever the exception
ErrorMessageVerbatim(outcome) == Message("", ErrorText(outcome))

\* the except clauses of _fetch_data
ErrorMessage(outcome) ==
    IF outcome \in {"401", "403"} THEN Message("", ErrorText(outcome))
    ELSE IF outcome \in {"status", "network"}
    THEN Message("Fetch error: ", ErrorText(outcome))
    ELSE Message("Error: ", ErrorText(outcome))

-----------------------------------------------------------------------------
(* app.py: the workers.  A worker is pending until the event loop first    *)
(* runs its coroutine, then it waits in `await fetch_quota(...)`.  A       *)
(* worker that ended or was cancelled runs no more code of the app and is  *)
(* dropped.                                                                *)

Worker(name) == [name |-> name, group |-> "default", pc |-> "pending"]

\* WorkerManager.cancel_group: exclusive=True cancels the group's workers
CancelGroup(ws, group) == SelectSeq(ws, LAMBDA w : w.group # group)

\* the worker added without cancelling the others
RunWorkerNotExclusive(ws, name) == Append(ws, Worker(name))

\* self.run_worker(coroutine, exclusive=True, name=name)
run_worker(ws, name) == Append(CancelGroup(ws, Worker(name).group), Worker(name))

\* _do_refresh
_do_refresh(ws) == run_worker(ws, "refresh")

\* _do_weekly_refresh
_do_weekly_refresh(ws) == run_worker(ws, "weekly-refresh")

\* the workers without the i-th
Without(ws, i) == SubSeq(ws, 1, i - 1) \o SubSeq(ws, i + 1, Len(ws))

\* DEFAULT_CONFIG["plan_type"]
ConfigPlanType == "pro"

\* a PieChart's reactive attributes
Chart(p, lbl, rt) == [usage_pct |-> p, label |-> lbl, reset_time |-> rt]

-----------------------------------------------------------------------------
(* The inputs of the model.                                                *)

\* usage_pct as the API can give it: below 0 and above 100 included
UsagePcts == (0 - PctMargin) .. (100 + PctMargin)

DefaultLabel == <<"U", "s", "a", "g", "e">>
SessionLabel == <<"5", "-", "H", "o", "u", "r", " ", "Q", "u", "o", "t", "a">>
WeeklyLabel  == <<"W", "e", "e", "k", "l", "y", " ", "Q", "u", "o", "t", "a">>
LongLabel    == [i \in 1 .. MaxLabelLen |-> "x"]
Labels == {DefaultLabel, SessionLabel, LongLabel}

\* UTC offsets of timezones, in minutes
Offsets == {0 - 8 * 60, 0, 5 * 60 + 30, 9 * 60}

\* the clock readings of the model: the 31st of January, at three times
BaseDay == 30 * MinutesPerDay
NowInstants == {BaseDay + 20, BaseDay + 12 * 60 + 5, BaseDay + 23 * 60 + 45}

\* reset times lie within MaxResetHours hours of the 31st of January, noon
MaxResetHours == 50
ResetInstants ==
    NowInstants \cup
    {BaseDay + 12 * 60 + h * 60 + 29 : h \in (0 - MaxResetHours) .. MaxResetHours}

\* aware datetimes in every timezone, and naive ones
ResetTimes ==
    {Aware(u + o, o) : u \in ResetInstants, o \in Offsets}
    \cup {Naive(u) : u \in ResetInstants}

\* the clock and the reset times of the widget's own specification
DonutNow == BaseDay + 12 * 60 + 5
DonutResets ==
    {NoDatetime, Aware(DonutNow + 90, 0), Aware(DonutNow + 3 * MinutesPerDay, 0)}

-----------------------------------------------------------------------------
(* The PieChart widget: assigning a reactive attribute runs its watcher,   *)
(* which calls _update_display().                                          *)

pieVars == <<usage_pct, label, reset_time, display, now_utc, local_off, reset_str>>
authVars == <<platform, keychain, cred_file, token_file, auth_call>>
appVars ==
    <<mounted, has_charts, timers, header, quota_data, session_chart,
      weekly_chart, stats_quota_data, last_refresh, last_weekly_refresh,
      clock, workers>>
cliVars == <<argv, cli_outcome>>
planVars == <<usage_answer, plan_call>>
parseVars == <<usage_json, parsed>>
configVars == <<config_file, config_call>>
countdownVars == <<total_seconds, remaining, countdown>>
toolVars == <<cliVars, planVars, parseVars, configVars, countdownVars>>
vars == <<pieVars, authVars, appVars, toolVars>>

\* the widget is not on the screen: _update_display() finds no Static
NotMounted == [ring |-> <<>>, grid |-> <<>>, right_lines |-> <<>>]

\* the state after construction, before anything is called
AuthIdle ==
    /\ platform = "Linux"
    /\ keychain = AbsentCreds
    /\ cred_file = AbsentCreds
    /\ token_file = AbsentToken
    /\ auth_call = [fn |-> "none", token |-> None, ok |-> FALSE]

\* ClaudemonApp.__init__ and the reactive defaults of the widgets
AppIdle ==
    /\ mounted = FALSE
    /\ has_charts = FALSE
    /\ timers = FALSE
    /\ header = [plan_type |-> "pro", last_refresh_ago |-> 0,
                 is_loading |-> TRUE, error_message |-> NoMessage]
    /\ quota_data = NoQuota
    /\ session_chart = Chart(0, DefaultLabel, NoDatetime)
    /\ weekly_chart = Chart(0, DefaultLabel, NoDatetime)
    /\ stats_quota_data = NoQuota
    /\ last_refresh = 0
    /\ last_weekly_refresh = 0
    /\ clock = 1
    /\ workers = <<>>

\* a widget on its own, at a fixed time
PieIdle ==
    /\ usage_pct = 0
    /\ label = DefaultLabel
    /\ reset_time = NoDatetime
    /\ now_utc = DonutNow
    /\ local_off = 0
    /\ display = NotMounted
    /\ reset_str = <<>>

\* main() has not run
NotRun == [ran |-> "none", mode |-> None, api_only |-> FALSE, error |-> None]

\* no command line
CliIdle ==
    /\ argv = <<>>
    /\ cli_outcome = NotRun

\* an answer of the usage endpoint: the status, and the two keys of the body
\* ("None": the key is not there)
Answer(status, plan_type, planType) ==
    [status |-> status, plan_type |-> plan_type, planType |-> planType]

NotCalled == [called |-> FALSE, plan |-> None]

\* detect_plan_type has not been called
PlanIdle ==
    /\ usage_answer = Answer("network", None, None)
    /\ plan_call = NotCalled

\* _parse_quota_response has not been called
ParseIdle ==
    /\ usage_json = <<>>
    /\ parsed = <<>>

\* config.toml: the text after "key = " of each line, <<>> without the line
ConfigToml(exists, plan_type, refresh_interval, admin_api_key, theme) ==
    [exists |-> exists, plan_type |-> plan_type,
     refresh_interval |-> refresh_interval,
     admin_api_key |-> admin_api_key, theme |-> theme]

\* CONFIG_FILE does not exist
NoConfigFile == ConfigToml(FALSE, <<>>, <<>>, <<>>, <<>>)

\* a value of the configuration: a str, an int or a bool
StrValue(chars) == [type |-> "str", chars |-> chars, n |-> 0, b |-> FALSE]
IntValue(n) == [type |-> "int", chars |-> <<>>, n |-> n, b |-> FALSE]
BoolValue(b) == [type |-> "bool", chars |-> <<>>, n |-> 0, b |-> b]

NoConfigCall ==
    [fn |-> "none", key |-> None, value |-> <<>>, error |-> None]

\* no configuration file, nothing called
ConfigIdle ==
    /\ config_file = NoConfigFile
    /\ config_call = NoConfigCall

\* format_countdown has not been called
CountdownIdle ==
    /\ total_seconds = 0
    /\ remaining = <<>>
    /\ countdown = <<>>

\* the command-line tools at rest
ToolsIdle == CliIdle /\ PlanIdle /\ ParseIdle /\ ConfigIdle /\ CountdownIdle

\* display.update(self._render_donut())
_update_display(p, lbl, rt) == _render_donut(p, lbl, rt, now_utc, local_off)

InitDonut ==
    /\ usage_pct = 0
    /\ label = DefaultLabel
    /\ reset_time = NoDatetime
    /\ now_utc = DonutNow
    /\ local_off = 0
    /\ display = _update_display(0, DefaultLabel, NoDatetime)
    /\ reset_str = <<>>
    /\ AuthIdle
    /\ AppIdle
    /\ ToolsIdle

\* watch_usage_pct
SetUsagePct(v) ==
    /\ usage_pct' = v
    /\ display' = _update_display(v, label, reset_time)
    /\ UNCHANGED <<label, reset_time, now_utc, local_off, reset_str>>
    /\ UNCHANGED <<authVars, appVars, toolVars>>

\* watch_label
SetLabel(l) ==
    /\ label' = l
    /\ display' = _update_display(usage_pct, l, reset_time)
    /\ UNCHANGED <<usage_pct, reset_time, now_utc, local_off, reset_str>>
    /\ UNCHANGED <<authVars, appVars, toolVars>>

\* watch_reset_time
SetResetTime(r) ==
    /\ reset_time' = r
    /\ display' = _update_display(usage_pct, label, r)
    /\ UNCHANGED <<usage_pct, label, now_utc, local_off, reset_str>>
    /\ UNCHANGED <<authVars, appVars, toolVars>>

NextDonut ==
    \/ \E v \in UsagePcts : SetUsagePct(v)
    \/ \E l \in Labels : SetLabel(l)
    \/ \E r \in DonutResets : SetResetTime(r)

SpecDonut == InitDonut /\ [][NextDonut]_vars

-----------------------------------------------------------------------------
(* _format_reset_time on its own: every reset time, clock and timezone.    *)

InitReset ==
    /\ usage_pct = 0
    /\ label = DefaultLabel
    /\ reset_time \in ResetTimes
    /\ now_utc \in NowInstants
    /\ local_off \in Offsets
    /\ display = NotMounted
    /\ reset_str = <<>>
    /\ AuthIdle
    /\ AppIdle
    /\ ToolsIdle

CallFormatResetTime ==
    /\ reset_str = <<>>
    /\ reset_str' = _format_reset_time(reset_time, now_utc, local_off)
    /\ UNCHANGED <<usage_pct, label, reset_time, display, now_utc, local_off>>
    /\ UNCHANGED <<authVars, appVars, toolVars>>

NextReset == CallFormatResetTime

SpecReset == InitReset /\ [][NextReset]_vars

-----------------------------------------------------------------------------
(* auth.py on its own: the stores change, the functions are called.        *)

\* access tokens: each store holds one of its own
CredDocs(token) ==
    {AbsentCreds, CredDoc("empty", None), CredDoc("other", None),
     CredDoc("oauth", None), CredDoc("oauth", ""), CredDoc("oauth", token)}

TokenDocs ==
    {AbsentToken, TokenDoc("dict", None), TokenDoc("dict", ""),
     TokenDoc("dict", "sk-cached")}

NoCall == [fn |-> "none", token |-> None, ok |-> FALSE]

InitAuth ==
    /\ PieIdle
    /\ AppIdle
    /\ ToolsIdle
    /\ platform \in {"Darwin", "Linux"}
    /\ keychain \in (IF platform = "Darwin" THEN CredDocs("sk-keychain")
                                            ELSE {AbsentCreds})
    /\ cred_file \in CredDocs("sk-file")
    /\ token_file \in TokenDocs
    /\ auth_call = NoCall

\* Claude Code logs in or out: the keychain item changes (macOS)
WriteKeychain(doc) ==
    /\ platform = "Darwin"
    /\ keychain' = doc
    /\ auth_call' = NoCall
    /\ UNCHANGED <<platform, cred_file, token_file, pieVars, appVars, toolVars>>

\* Claude Code logs in or out: the credentials file changes
WriteCredFile(doc) ==
    /\ cred_file' = doc
    /\ auth_call' = NoCall
    /\ UNCHANGED <<platform, keychain, token_file, pieVars, appVars, toolVars>>

\* interactive_setup: store_token({"oauth_token": token})
StoreToken ==
    /\ token_file' = store_token(TokenDoc("dict", "sk-cached"))
    /\ auth_call' = NoCall
    /\ UNCHANGED <<platform, keychain, cred_file, pieVars, appVars, toolVars>>

\* clear_token
ClearToken ==
    /\ token_file' = AbsentToken
    /\ auth_call' = NoCall
    /\ UNCHANGED <<platform, keychain, cred_file, pieVars, appVars, toolVars>>

CallGetOAuthToken ==
    /\ auth_call' = [fn |-> "get_oauth_token", token |-> get_oauth_token,
                     ok |-> FALSE]
    /\ UNCHANGED <<platform, keychain, cred_file, token_file, pieVars, appVars, toolVars>>

CallIsAuthenticated ==
    /\ auth_call' = [fn |-> "is_authenticated", token |-> None,
                     ok |-> is_authenticated]
    /\ UNCHANGED <<platform, keychain, cred_file, token_file, pieVars, appVars, toolVars>>

NextAuth ==
    \/ \E doc \in CredDocs("sk-keychain") : WriteKeychain(doc)
    \/ \E doc \in CredDocs("sk-file") : WriteCredFile(doc)
    \/ StoreToken
    \/ ClearToken
    \/ CallGetOAuthToken
    \/ CallIsAuthenticated

SpecAuth == InitAuth /\ [][NextAuth]_vars

-----------------------------------------------------------------------------
(* app.py: the application.  Handlers and the steps of the workers'        *)
(* coroutines between two awaits run one at a time on the event loop.      *)

\* the clock runs from 1 to MaxClock ticks
MaxClock == 3

\* what the usage endpoint may answer
Quotas ==
    {QuotaData(42, Aware(DonutNow + 90, 0), 17,
               Aware(DonutNow + 3 * MinutesPerDay, 0), "max"),
     QuotaData(85, NoDatetime, 63, NoDatetime, "")}

Init ==
    /\ PieIdle
    /\ AppIdle
    /\ ToolsIdle
    /\ platform = "Linux"
    /\ keychain = AbsentCreds
    /\ cred_file \in {AbsentCreds, CredDoc("oauth", "sk-file")}
    /\ token_file \in {AbsentToken, TokenDoc("dict", "")}
    /\ auth_call = NoCall

\* compose, then on_mount
OnMount ==
    /\ ~mounted
    /\ mounted' = TRUE
    /\ has_charts' = is_authenticated
    /\ header' = [header EXCEPT !.plan_type = ConfigPlanType]
    /\ IF is_authenticated
       THEN /\ workers' = _do_weekly_refresh(_do_refresh(workers))
            /\ timers' = TRUE
       ELSE UNCHANGED <<workers, timers>>
    /\ UNCHANGED <<quota_data, session_chart, weekly_chart, stats_quota_data,
                   last_refresh, last_weekly_refresh, clock>>
    /\ UNCHANGED <<pieVars, authVars, toolVars>>

\* set_interval(self._refresh_interval, self._do_refresh)
TimerRefresh ==
    /\ timers
    /\ workers' = _do_refresh(workers)
    /\ UNCHANGED <<mounted, has_charts, timers, header, quota_data,
                   session_chart, weekly_chart, stats_quota_data,
                   last_refresh, last_weekly_refresh, clock>>
    /\ UNCHANGED <<pieVars, authVars, toolVars>>

\* set_interval(self.WEEKLY_REFRESH_INTERVAL, self._do_weekly_refresh)
TimerWeekly ==
    /\ timers
    /\ workers' = _do_weekly_refresh(workers)
    /\ UNCHANGED <<mounted, has_charts, timers, header, quota_data,
                   session_chart, weekly_chart, stats_quota_data,
                   last_refresh, last_weekly_refresh, clock>>
    /\ UNCHANGED <<pieVars, authVars, toolVars>>

\* set_interval(1, self._tick_refresh_counter)
_tick_refresh_counter ==
    /\ timers
    /\ header' = IF last_refresh > 0
                 THEN [header EXCEPT !.last_refresh_ago = clock - last_refresh]
                 ELSE header
    /\ UNCHANGED <<mounted, has_charts, timers, quota_data, session_chart,
                   weekly_chart, stats_quota_data, last_refresh,
                   last_weekly_refresh, clock, workers>>
    /\ UNCHANGED <<pieVars, authVars, toolVars>>

\* time passes
ClockTick ==
    /\ clock < MaxClock
    /\ clock' = clock + 1
    /\ UNCHANGED <<mounted, has_charts, timers, header, quota_data,
                   session_chart, weekly_chart, stats_quota_data,
                   last_refresh, last_weekly_refresh, workers>>
    /\ UNCHANGED <<pieVars, authVars, toolVars>>

\* the key r: action_refresh
action_refresh ==
    /\ mounted
    /\ workers' = _do_weekly_refresh(_do_refresh(workers))
    /\ UNCHANGED <<mounted, has_charts, timers, header, quota_data,
                   session_chart, weekly_chart, stats_quota_data,
                   last_refresh, last_weekly_refresh, clock>>
    /\ UNCHANGED <<pieVars, authVars, toolVars>>

\* _fetch_data from its first line to `await fetch_quota(oauth_token)`, or
\* to its end when there is no token
FetchDataStart(i) ==
    /\ workers[i].name = "refresh"
    /\ workers[i].pc = "pending"
    /\ IF Truthy(get_oauth_token)
       THEN /\ header' = [header EXCEPT !.is_loading = TRUE,
                                        !.error_message = NoMessage]
            /\ workers' = [workers EXCEPT ![i].pc = "fetching"]
            /\ UNCHANGED last_refresh
       ELSE /\ header' = [header EXCEPT !.is_loading = FALSE,
                                        !.error_message = NoMessage]
            /\ last_refresh' = clock
            /\ workers' = Without(workers, i)
    /\ UNCHANGED <<mounted, has_charts, timers, quota_data, session_chart,
                   weekly_chart, stats_quota_data, last_weekly_refresh, clock>>
    /\ UNCHANGED <<pieVars, authVars, toolVars>>

\* _fetch_data after fetch_quota returned quota
FetchDataReturns(i, quota) ==
    /\ workers[i].name = "refresh"
    /\ workers[i].pc = "fetching"
    /\ quota_data' = quota
    /\ header' = [header EXCEPT
                     !.plan_type = IF Truthy(quota.plan_type)
                                   THEN quota.plan_type ELSE ConfigPlanType,
                     !.is_loading = FALSE]
    /\ IF has_charts
       THEN /\ session_chart' = Chart(quota.five_hour_usage_pct, SessionLabel,
                                      quota.five_hour_reset_time)
            /\ stats_quota_data' = quota
       ELSE UNCHANGED <<session_chart, stats_quota_data>>
    /\ last_refresh' = clock
    /\ workers' = Without(workers, i)
    /\ UNCHANGED <<mounted, has_charts, timers, weekly_chart,
                   last_weekly_refresh, clock>>
    /\ UNCHANGED <<pieVars, authVars, toolVars>>

\* the except clauses recording the time of the refresh as well
FetchDataRaisesStamped(i, outcome) ==
    /\ workers[i].name = "refresh"
    /\ workers[i].pc = "fetching"
    /\ header' = [header EXCEPT !.is_loading = FALSE,
                                !.error_message = ErrorMessage(outcome)]
    /\ last_refresh' = clock
    /\ workers' = Without(workers, i)
    /\ UNCHANGED <<mounted, has_charts, timers, quota_data, session_chart,
                   weekly_chart, stats_quota_data, last_weekly_refresh, clock>>
    /\ UNCHANGED <<pieVars, authVars, toolVars>>

\* _fetch_data after fetch_quota raised: the except clauses
FetchDataRaises(i, outcome) ==
    /\ workers[i].name = "refresh"
    /\ workers[i].pc = "fetching"
    /\ header' = [header EXCEPT !.is_loading = FALSE,
                                !.error_message = ErrorMessage(outcome)]
    /\ workers' = Without(workers, i)
    /\ UNCHANGED <<mounted, has_charts, timers, quota_data, session_chart,
                   weekly_chart, stats_quota_data, last_refresh,
                   last_weekly_refresh, clock>>
    /\ UNCHANGED <<pieVars, authVars, toolVars>>

\* _fetch_weekly from its first line to `await fetch_quota(oauth_token)`,
\* or to its end when there is no token
FetchWeeklyStart(i) ==
    /\ workers[i].name = "weekly-refresh"
    /\ workers[i].pc = "pending"
    /\ workers' = IF Truthy(get_oauth_token)
                  THEN [workers EXCEPT ![i].pc = "fetching"]
                  ELSE Without(workers, i)
    /\ UNCHANGED <<mounted, has_charts, timers, header, quota_data,
                   session_chart, weekly_chart, stats_quota_data,
                   last_refresh, last_weekly_refresh, clock>>
    /\ UNCHANGED <<pieVars, authVars, toolVars>>

\* _fetch_weekly after fetch_quota returned quota
FetchWeeklyReturns(i, quota) ==
    /\ workers[i].name = "weekly-refresh"
    /\ workers[i].pc = "fetching"
    /\ weekly_chart' = IF has_charts
                       THEN Chart(quota.seven_day_usage_pct, WeeklyLabel,
                                  quota.seven_day_reset_time)
                       ELSE weekly_chart
    /\ last_weekly_refresh' = clock
    /\ workers' = Without(workers, i)
    /\ UNCHANGED <<mounted, has_charts, timers, header, quota_data,
                   session_chart, stats_quota_data, last_refresh, clock>>
    /\ UNCHANGED <<pieVars, authVars, toolVars>>

\* the weekly fetch reporting its failure in the header
FetchWeeklyRaisesReported(i) ==
    /\ workers[i].name = "weekly-refresh"
    /\ workers[i].pc = "fetching"
    /\ header' = [header EXCEPT !.error_message =
                                    Message("Error: ", ErrorText("other"))]
    /\ workers' = Without(workers, i)
    /\ UNCHANGED <<mounted, has_charts, timers, quota_data, session_chart,
                   weekly_chart, stats_quota_data, last_refresh,
                   last_weekly_refresh, clock>>
    /\ UNCHANGED <<pieVars, authVars, toolVars>>

\* _fetch_weekly after fetch_quota raised: except Exception: pass
FetchWeeklyRaises(i) ==
    /\ workers[i].name = "weekly-refresh"
    /\ workers[i].pc = "fetching"
    /\ workers' = Without(workers, i)
    /\ UNCHANGED <<mounted, has_charts, timers, header, quota_data,
                   session_chart, weekly_chart, stats_quota_data,
                   last_refresh, last_weekly_refresh, clock>>
    /\ UNCHANGED <<pieVars, authVars, toolVars>>

Next ==
    \/ OnMount
    \/ TimerRefresh
    \/ TimerWeekly
    \/ _tick_refresh_counter
    \/ ClockTick
    \/ action_refresh
    \/ \E i \in 1 .. Len(workers) : FetchDataStart(i)
    \/ \E i \in 1 .. Len(workers) : \E quota \in Quotas :
           FetchDataReturns(i, quota)
    \/ \E i \in 1 .. Len(workers) : \E outcome \in FetchErrors :
           FetchDataRaises(i, outcome)
    \/ \E i \in 1 .. Len(workers) : FetchWeeklyStart(i)
    \/ \E i \in 1 .. Len(workers) : \E quota \in Quotas :
           FetchWeeklyReturns(i, quota)
    \/ \E i \in 1 .. Len(workers) : FetchWeeklyRaises(i)

Spec == Init /\ [][Next]_vars

\* a step of one of the workers' coroutines
WorkerStep ==
    \E i \in 1 .. Len(workers) :
        \/ FetchDataStart(i)
        \/ \E quota \in Quotas : FetchDataReturns(i, quota)
        \/ \E outcome \in FetchErrors : FetchDataRaises(i, outcome)
        \/ FetchWeeklyStart(i)
        \/ \E quota \in Quotas : FetchWeeklyReturns(i, quota)
        \/ FetchWeeklyRaises(i)

\* the event loop runs a worker that can run, a fetch that is not cancelled
\* returns or raises, and the interval timers keep firing
Fairness ==
    /\ WF_vars(WorkerStep)
    /\ WF_vars(TimerRefresh)
    /\ WF_vars(TimerWeekly)

SpecLive == Spec /\ Fairness

-----------------------------------------------------------------------------
(* Properties of the ring rasterization (SpecDonut).                       *)

RowRange == 0 .. Rows - 1
ColRange == 0 .. Cols - 1

\* the character of cell (row, col) of the grid before the overlay
RingChar(row, col) == display.ring[row + 1][col + 1][1]

\* (row, col) is on the ring: 4r^2 <= (col - 2R)^2 + 4(row - R)^2 <= 4R^2
GeomOnRing(row, col) ==
    LET q == (col - 2 * OuterR) * (col - 2 * OuterR)
             + 4 * (row - OuterR) * (row - OuterR)
    IN  4 * InnerR * InnerR <= q /\ q <= 4 * OuterR * OuterR

GeomRing == {c \in RowRange \X ColRange : GeomOnRing(c[1], c[2])}

FilledCells == {c \in RowRange \X ColRange : RingChar(c[1], c[2]) = FILLED}
UnfilledCells == {c \in RowRange \X ColRange : RingChar(c[1], c[2]) = UNFILLED}

\* C1: at usage 0 no ring cell is filled: every ring cell shows the
\* unfilled character.
C1_NoneFilledAtZero ==
    ClampPct(usage_pct) = 0 =>
        \A c \in GeomRing : RingChar(c[1], c[2]) = UNFILLED

\* C2: at usage 100, and at any usage above 100, every ring cell is filled
\* before the text is laid over the grid.
C2_AllFilledAtFull ==
    usage_pct >= 100 =>
        /\ FilledCells = GeomRing
        /\ UnfilledCells = {}

C2_Witness ==
    /\ usage_pct > 100
    /\ Cardinality(FilledCells) > 100

\* C3: a cell filled at p1 is filled at every p2 >= p1 (both clamped to
\* 0..100), so the number of filled cells does not decrease with p.
C3_FilledMonotone ==
    [][ClampPct(usage_pct) <= ClampPct(usage_pct') =>
          \A row \in RowRange, col \in ColRange :
              display.ring[row + 1][col + 1][1] = FILLED
                  => display'.ring[row + 1][col + 1][1] = FILLED]_vars

C3_Witness ==
    /\ usage_pct = 62
    /\ Cardinality(FilledCells) > 3
    /\ UnfilledCells # {}

\* C4: one colour per percentage: green iff p < 50, yellow iff
\* 50 <= p < 80, red iff p >= 80; _get_color and _usage_color agree, and
\* the filled cells of the ring carry the colour of the clamped percentage.
ColorOf(p) ==
    CASE p < 50 -> "green"
      [] p >= 50 /\ p < 80 -> "yellow"
      [] p >= 80 -> "red"

C4_ColorThresholds ==
    /\ _get_color(usage_pct) = ColorOf(usage_pct)
    /\ _usage_color(usage_pct) = _get_color(usage_pct)
    /\ \A c \in FilledCells :
           display.ring[c[1] + 1][c[2] + 1][2] = ColorOf(ClampPct(usage_pct))

C4_Witness ==
    /\ usage_pct = 50
    /\ \E c \in FilledCells : display.ring[c[1] + 1][c[2] + 1][2] = "yellow"

\* C5: a cell is on the ring iff r <= sqrt(dx^2 + dy^2) <= R; the cells on
\* the ring show the filled or the unfilled character, all others are blank.
C5_RingGeometry ==
    \A row \in RowRange, col \in ColRange :
        /\ GeomOnRing(row, col) => RingChar(row, col) \in {FILLED, UNFILLED}
        /\ ~GeomOnRing(row, col) => display.ring[row + 1][col + 1] = <<BLANK, "">>

\* a cell at distance exactly R and one at exactly r are drawn, a corner
\* and the centre are blank
C5_Witness ==
    /\ usage_pct = 37
    /\ RingChar(0, 2 * OuterR) = FILLED
    /\ RingChar(OuterR, 2 * OuterR - 2 * InnerR) = UNFILLED
    /\ RingChar(0, 0) = BLANK
    /\ RingChar(OuterR, 2 * OuterR) = BLANK

\* The clockwise quadrant of a cell, counted from 12 o'clock: quadrant k
\* holds the angles k * 90 <= angle < (k + 1) * 90 degrees.
Quadrant(row, col) ==
    LET dx == col - 2 * OuterR
        dy == row - OuterR
    IN  CASE dx >= 0 /\ dy < 0  -> 0
          [] dx > 0  /\ dy >= 0 -> 1
          [] dx <= 0 /\ dy > 0  -> 2
          [] OTHER              -> 3

\* the cell lies on the axis that starts its quadrant
OnAxis(row, col) == col = 2 * OuterR \/ row = OuterR

\* cell a comes no later than cell b on the clockwise sweep from the top
ClockwiseLeq(a, b) ==
    \/ Quadrant(a[1], a[2]) < Quadrant(b[1], b[2])
    \/ /\ Quadrant(a[1], a[2]) = Quadrant(b[1], b[2])
       /\ (a[2] - 2 * OuterR) * (b[1] - OuterR)
              - (b[2] - 2 * OuterR) * (a[1] - OuterR) >= 0

\* the ring cells of the first k clockwise quadrants, boundaries included
FirstQuadrants(k) ==
    {c \in GeomRing :
        \/ Quadrant(c[1], c[2]) < k
        \/ Quadrant(c[1], c[2]) = k /\ OnAxis(c[1], c[2])}

\* C6: the fill sweeps clockwise from 12 o'clock: with a filled cell, every
\* ring cell before it on the sweep is filled; and at 25, 50 and 75 per
\* cent the filled cells are exactly the first one, two and three
\* quadrants, their boundaries included.
C6_ClockwiseSweep ==
    LET pct == ClampPct(usage_pct)
        filled == FilledCells
        unfilled == GeomRing \ FilledCells
    IN  /\ \A b \in filled : \A a \in unfilled : ~ClockwiseLeq(a, b)
        /\ pct % 25 = 0 /\ pct < 100 => filled = FirstQuadrants(pct \div 25)
        /\ FirstQuadrants(pct \div 25) \subseteq filled
        /\ pct < 100 => filled \subseteq FirstQuadrants(pct \div 25 + 1)

C6_Witness ==
    /\ usage_pct = 75
    /\ <<OuterR, 0>> \in FilledCells
    /\ <<OuterR - 1, 1>> \in GeomRing \ FilledCells

\* C7: the grid has 2R + 1 rows of 4R + 1 cells, before and after the text
\* is laid over it, whatever the percentage, the label and the reset time.
C7_GridDimensions ==
    /\ Len(display.ring) = 2 * OuterR + 1
    /\ Len(display.grid) = 2 * OuterR + 1
    /\ \A r \in 1 .. Len(display.grid) :
           /\ Len(display.ring[r]) = 4 * OuterR + 1
           /\ Len(display.grid[r]) = 4 * OuterR + 1

\* a label wider than the grid, a four-character percentage, a reset time
C7_Witness ==
    /\ Len(label) > Cols
    /\ usage_pct = 100
    /\ reset_time # NoDatetime
    /\ display.grid[CenterRow + 2][1] = <<"x", "dim">>
    /\ display.grid[CenterRow + 1][CenterX + 2] = <<"%", "bold red">>

-----------------------------------------------------------------------------
(* Properties of _format_reset_time (SpecReset).                           *)

\* the wall clock of the system timezone at an instant
LocalWall(utc) == Aware(utc + local_off, local_off)

\* the days from today to the day of the reset, both in the system timezone
DayOffset ==
    DateOf(LocalWall(UtcOf(reset_time, local_off))) - DateOf(LocalWall(now_utc))

ResetLocal == LocalWall(UtcOf(reset_time, local_off))

-----------------------------------------------------------------------------
(* Properties of the refresh workers (Spec).                               *)

\* the workers whose coroutine has not finished and was not cancelled
InFlight == SelectSeq(workers, LAMBDA w : w.pc \in {"pending", "fetching"})

\* C9: under any interleaving of the session timer, the weekly timer and
\* manual refreshes, at most one worker started by _do_refresh or
\* _do_weekly_refresh is in flight: starting one cancels the one still running.
C9_SingleRefreshWorker ==
    /\ Len(InFlight) <= 1
    /\ \A i \in 1 .. Len(workers) :
           workers[i].name \in {"refresh", "weekly-refresh"}

\* a refresh completed, the next one got as far as its fetch and set
\* is_loading, and it is gone without clearing it: the weekly worker that is
\* now the only one in flight cancelled it
C9_Witness ==
    /\ quota_data # NoQuota
    /\ header.is_loading
    /\ Len(InFlight) = 1
    /\ InFlight[1].name = "weekly-refresh"

-----------------------------------------------------------------------------
(* Properties of the credential lookup (SpecAuth).                         *)

KeychainHasToken ==
    /\ platform = "Darwin"
    /\ keychain.kind = "oauth"
    /\ keychain.accessToken \notin {None, ""}

FileHasToken ==
    /\ cred_file.kind = "oauth"
    /\ cred_file.accessToken \notin {None, ""}

CachedToken ==
    IF token_file.kind = "dict" THEN token_file.oauth_token ELSE None

ByPrecedence ==
    IF KeychainHasToken THEN keychain.accessToken
    ELSE IF FileHasToken THEN cred_file.accessToken
    ELSE CachedToken

\* C10: get_oauth_token returns the keychain's accessToken when the keychain
\* credentials hold a non-empty one, else the credentials file's when it
\* holds a non-empty one, else the token cache's oauth_token, else None; the
\* cached token is never returned while Claude Code credentials with an access
\* token exist; is_authenticated() is true iff that result is not None.
C10_CredentialPrecedence ==
    /\ auth_call.fn = "get_oauth_token" =>
          /\ auth_call.token = ByPrecedence
          /\ (KeychainHasToken \/ FileHasToken) =>
                 /\ auth_call.token \in {keychain.accessToken,
                                         cred_file.accessToken}
                 /\ auth_call.token # CachedToken
    /\ auth_call.fn = "is_authenticated" =>
          auth_call.ok = (ByPrecedence # None)

\* all three stores hold a token and get_oauth_token answered the keychain's
C10_Witness ==
    /\ KeychainHasToken
    /\ FileHasToken
    /\ CachedToken \notin {None, ""}
    /\ auth_call.fn = "get_oauth_token"
    /\ auth_call.token = keychain.accessToken
    /\ auth_call.token # cred_file.accessToken

-----------------------------------------------------------------------------
(* __main__.py: the command line.                                          *)

\* command lines have at most MaxArgs words
MaxArgs == 3

\* the words of the help text
ArgWords == {"setup", "--api", "--mode", "api", "--help", "-h", "--version"}

ArgLists == UNION {[1 .. n -> ArgWords] : n \in 0 .. MaxArgs}

\* x in args
In(x, args) == \E i \in 1 .. Len(args) : args[i] = x

\* args.index(x), counted from 1
Index(args, x) ==
    CHOOSE i \in 1 .. Len(args) :
        args[i] = x /\ \A j \in 1 .. (i - 1) : args[j] # x

\* def __init__(self): the parameters besides self
ClaudemonAppParams == {}

\* def interactive_setup() -> None: its parameters
InteractiveSetupParams == {}

\* Python binds the keyword arguments of a call to parameters of these names,
\* and raises TypeError for a keyword the function does not have
Binds(params, keywords) == keywords \subseteq params

Raised(error) ==
    [ran |-> "none", mode |-> None, api_only |-> FALSE, error |-> error]

Ran(what, mode, api_only) ==
    [ran |-> what, mode |-> mode, api_only |-> api_only, error |-> None]

\* _run_setup(args): interactive_setup(api_only=api_only)
_run_setup(args) ==
    LET api_only == In("--api", args)
    IN  IF Binds(InteractiveSetupParams, {"api_only"})
        THEN Ran("setup", None, api_only)
        ELSE Raised("TypeError")

\* the mode main() reads from its arguments
ModeOf(args) ==
    IF In("--mode", args) /\ Index(args, "--mode") + 1 <= Len(args)
    THEN args[Index(args, "--mode") + 1]
    ELSE "quota"

\* main()
main(args) ==
    IF Len(args) > 0 /\ args[1] = "setup" THEN _run_setup(Tail(args))
    ELSE IF In("--help", args) \/ In("-h", args) THEN Ran("help", None, FALSE)
    ELSE IF In("--version", args) THEN Ran("version", None, FALSE)
    ELSE IF Binds(ClaudemonAppParams, {"mode"})
         THEN Ran("tui", ModeOf(args), FALSE)
         ELSE Raised("TypeError")

InitCli ==
    /\ PieIdle
    /\ CountdownIdle
    /\ AuthIdle
    /\ AppIdle
    /\ PlanIdle
    /\ ParseIdle
    /\ ConfigIdle
    /\ argv \in ArgLists
    /\ cli_outcome = NotRun

\* python -m claudemon argv
RunMain ==
    /\ cli_outcome = NotRun
    /\ cli_outcome' = main(argv)
    /\ UNCHANGED <<argv, planVars, parseVars, configVars, pieVars, authVars, appVars, countdownVars>>

NextCli == RunMain

SpecCli == InitCli /\ [][NextCli]_vars

\* C11: every invocation of the help text reaches its action without an
\* error: no words and `--mode api` run the TUI, `setup` and `setup --api`
\* run the interactive setup, `--help`, `-h` and `--version` print and return.
C11_HelpFormsReachAction ==
    cli_outcome # NotRun =>
        /\ argv = <<>> => cli_outcome = Ran("tui", "quota", FALSE)
        /\ argv = <<"--mode", "api">> => cli_outcome = Ran("tui", "api", FALSE)
        /\ argv = <<"setup">> => cli_outcome = Ran("setup", None, FALSE)
        /\ argv = <<"setup", "--api">> => cli_outcome = Ran("setup", None, TRUE)
        /\ argv \in {<<"--help">>, <<"-h">>} =>
               cli_outcome = Ran("help", None, FALSE)
        /\ argv = <<"--version">> => cli_outcome = Ran("version", None, FALSE)

-----------------------------------------------------------------------------
(* auth.py: detect_plan_type.  Subscription types are sequences of         *)
(* characters, <<>> where the credentials have none.                       *)

\* a credentials document with a subscriptionType
CredDocSub(t, sub) ==
    [kind |-> "oauth", accessToken |-> t, subscriptionType |-> sub]

ClaudePro == <<"d", "e", "f", "a", "u", "l", "t", "_", "c", "l", "a", "u", "d", "e", "_", "p", "r", "o">>
ClaudeMax5 == <<"d", "e", "f", "a", "u", "l", "t", "_", "c", "l", "a", "u", "d", "e", "_", "m", "a", "x", "_", "5", "x">>
ClaudeMax20 == <<"d", "e", "f", "a", "u", "l", "t", "_", "c", "l", "a", "u", "d", "e", "_", "m", "a", "x", "_", "2", "0", "x">>

\* PLAN_NAMES.get(sub_type)
PLAN_NAMES(sub_type) ==
    IF sub_type = ClaudePro THEN "pro"
    ELSE IF sub_type \in {ClaudeMax5, ClaudeMax20} THEN "max"
    ELSE None

UpperToLower ==
    "A" :> "a" @@ "B" :> "b" @@ "C" :> "c" @@ "D" :> "d" @@ "E" :> "e" @@ "F" :> "f" @@
    "G" :> "g" @@ "H" :> "h" @@ "I" :> "i" @@ "J" :> "j" @@ "K" :> "k" @@ "L" :> "l" @@
    "M" :> "m" @@ "N" :> "n" @@ "O" :> "o" @@ "P" :> "p" @@ "Q" :> "q" @@ "R" :> "r" @@
    "S" :> "s" @@ "T" :> "t" @@ "U" :> "u" @@ "V" :> "v" @@ "W" :> "w" @@ "X" :> "x" @@
    "Y" :> "y" @@ "Z" :> "z"

\* str.lower()
Lower(str) ==
    [i \in 1 .. Len(str) |->
        IF str[i] \in DOMAIN UpperToLower THEN UpperToLower[str[i]] ELSE str[i]]

\* word in str
Contains(word, str) ==
    \E i \in 1 .. (Len(str) - Len(word) + 1) :
        SubSeq(str, i, i + Len(word) - 1) = word

\* get_subscription_type
get_subscription_type ==
    LET creds == _get_claude_code_credentials
    IN  IF creds.kind # "absent" THEN creds.subscriptionType ELSE <<>>

\* the names api.py defines or imports
ApiNames ==
    {"datetime", "httpx", "ApiUsageData", "ModelQuota", "QuotaData",
     "TokenData", "OAUTH_USAGE_URL", "ADMIN_MESSAGES_URL", "ADMIN_COSTS_URL",
     "QuotaFetchError", "AuthenticationError", "fetch_quota",
     "_parse_quota_response", "_parse_iso_time", "fetch_api_usage",
     "_parse_token_usage", "_parse_costs"}

\* from .api import names: ImportError unless api.py has them all
ImportsFromApi(names) == names \subseteq ApiNames

\* data.get("plan_type", data.get("planType", "pro"))
PlanOfBody(answer) ==
    IF answer.plan_type # None THEN answer.plan_type
    ELSE IF answer.planType # None THEN answer.planType
    ELSE "pro"

\* the fallback of detect_plan_type: the try block, or "pro" after it
PlanFromApi(answer) ==
    IF ~Truthy(get_oauth_token) THEN "pro"
    ELSE IF ~ImportsFromApi({"OAUTH_USAGE_URL", "OAUTH_BETA_HEADER"}) THEN "pro"
    ELSE IF answer.status = "success" THEN PlanOfBody(answer)
    ELSE "pro"

\* detect_plan_type
detect_plan_type(answer) ==
    LET sub_type == get_subscription_type
        lower == Lower(sub_type)
    IN  IF sub_type # <<>> /\ PLAN_NAMES(sub_type) # None
        THEN PLAN_NAMES(sub_type)
        ELSE IF sub_type # <<>> /\ Contains(<<"m", "a", "x">>, lower) THEN "max"
        ELSE IF sub_type # <<>> /\ Contains(<<"p", "r", "o">>, lower) THEN "pro"
        ELSE PlanFromApi(answer)

\* subscription types that Claude Code writes, and others
SubTypes ==
    {<<>>, ClaudePro, ClaudeMax5, ClaudeMax20, <<"M", "a", "x">>,
     <<"P", "R", "O">>, <<"t", "e", "a", "m">>}

Answers ==
    {Answer("network", None, None), Answer("failure", None, None)} \cup
    {Answer("success", a, b) : a \in {None, "max", "pro"},
                               b \in {None, "max", "team"}}

InitPlan ==
    /\ PieIdle
    /\ CountdownIdle
    /\ AppIdle
    /\ CliIdle
    /\ ParseIdle
    /\ ConfigIdle
    /\ platform = "Linux"
    /\ keychain = AbsentCreds
    /\ cred_file \in {AbsentCreds} \cup
                     {CredDocSub(t, sub) : t \in {"", "sk-file"},
                                           sub \in SubTypes}
    /\ token_file \in {AbsentToken, TokenDoc("dict", "sk-cached")}
    /\ auth_call = NoCall
    /\ usage_answer \in Answers
    /\ plan_call = NotCalled

\* plan = detect_plan_type()
CallDetectPlanType ==
    /\ ~plan_call.called
    /\ plan_call' = [called |-> TRUE, plan |-> detect_plan_type(usage_answer)]
    /\ UNCHANGED <<usage_answer, cliVars, parseVars, configVars, pieVars, authVars, appVars, countdownVars>>

NextPlan == CallDetectPlanType

SpecPlan == InitPlan /\ [][NextPlan]_vars

\* the credentials name a plan: a key of PLAN_NAMES, or "max" or "pro" inside
Recognizable(sub_type) ==
    \/ sub_type \in {ClaudePro, ClaudeMax5, ClaudeMax20}
    \/ Contains(<<"m", "a", "x">>, Lower(sub_type))
    \/ Contains(<<"p", "r", "o">>, Lower(sub_type))

\* the plan type in a successful answer of the usage endpoint, or None
AnsweredPlan ==
    IF usage_answer.status # "success" THEN None
    ELSE IF usage_answer.plan_type # None THEN usage_answer.plan_type
    ELSE usage_answer.planType

\* C12: when the credentials give no recognizable subscription type, an
\* OAuth token is available and the usage endpoint answers successfully with
\* a plan type, detect_plan_type returns that plan type; "pro" is the default
\* only when neither source yields a plan.
C12_PlanFromUsageApi ==
    (/\ plan_call.called
     /\ ~Recognizable(get_subscription_type)
     /\ get_oauth_token \notin {None, ""}
     /\ AnsweredPlan # None)
        => plan_call.plan = AnsweredPlan

-----------------------------------------------------------------------------
(* api.py: _parse_quota_response.  A JSON object is a record of its known  *)
(* keys; the value of a key is <<>> when the key is missing and <<v>> when *)
(* it is there.  Numbers are in 1/Milli.                                   *)

Milli == 1000

\* dict.get(key): the key is there
Has(opt) == opt # <<>>

\* dict.get(first, dict.get(second, default))
Get2(first, second, default) ==
    IF Has(first) THEN first[1] ELSE IF Has(second) THEN second[1] ELSE default

\* a usage window of the body; other: it has keys the parser does not read
Window(utilization, pct, reset_at, resetAt, other) ==
    [utilization |-> utilization, usage_pct |-> pct,
     reset_at |-> reset_at, resetAt |-> resetAt, other |-> other]

\* {}
EmptyWindow == Window(<<>>, <<>>, <<>>, <<>>, FALSE)

\* Python's truth value of a dict
TruthyDict(w) ==
    Has(w.utilization) \/ Has(w.usage_pct) \/ Has(w.reset_at)
        \/ Has(w.resetAt) \/ w.other

\* an ISO 8601 timestamp: the wall clock in minutes and the zone suffix;
\* the empty string has the suffix "empty"
IsoText(wall, zone) == [wall |-> wall, zone |-> zone]
EmptyText == IsoText(0, "empty")

\* time_str.replace("Z", "+00:00")
ReplaceZ(time_str) ==
    IF time_str.zone = "Z" THEN IsoText(time_str.wall, "+00:00") ELSE time_str

\* datetime.fromisoformat(time_str)
FromIsoFormat(time_str) ==
    CASE time_str.zone = "+00:00" -> Aware(time_str.wall, 0)
      [] time_str.zone = "+05:30" -> Aware(time_str.wall, 5 * 60 + 30)
      [] time_str.zone = "-08:00" -> Aware(time_str.wall, 0 - 8 * 60)
      [] OTHER -> Naive(time_str.wall)

\* _parse_iso_time
_parse_iso_time(time_str) == FromIsoFormat(ReplaceZ(time_str))

\* the value of the window read as a percentage already
UsageOfUnscaled(w) == Get2(w.utilization, w.usage_pct, 0)

\* five_hour.get("utilization", five_hour.get("usage_pct", 0.0)) * 100
UsageOf(w) == Get2(w.utilization, w.usage_pct, 0) * 100

\* the reset time of a window: reset_at, else resetAt, parsed when not empty
ResetOf(w) ==
    LET reset_at == Get2(w.reset_at, w.resetAt, EmptyText)
    IN  IF reset_at # EmptyText THEN _parse_iso_time(reset_at) ELSE NoDatetime

\* a model entry of the body
ModelEntry(model, name, utilization, pct) ==
    [model |-> model, name |-> name,
     utilization |-> utilization, usage_pct |-> pct]

\* ModelQuota(model_name=name, usage_pct=usage)
ModelQuota(m) ==
    [model_name |-> Get2(m.model, m.name, "unknown"),
     usage_pct |-> Get2(m.utilization, m.usage_pct, 0) * 100]

\* _parse_quota_response(data)
_parse_quota_response(data) ==
    LET five_hour == Get2(data.five_hour, data.fiveHour, EmptyWindow)
        seven_day == Get2(data.seven_day, data.sevenDay, EmptyWindow)
        models == Get2(data.models, data.model_quotas, <<>>)
    IN  [five_hour_usage_pct |->
             IF TruthyDict(five_hour) THEN UsageOf(five_hour) ELSE 0,
         five_hour_reset_time |->
             IF TruthyDict(five_hour) THEN ResetOf(five_hour) ELSE NoDatetime,
         seven_day_usage_pct |->
             IF TruthyDict(seven_day) THEN UsageOf(seven_day) ELSE 0,
         seven_day_reset_time |->
             IF TruthyDict(seven_day) THEN ResetOf(seven_day) ELSE NoDatetime,
         model_quotas |-> [i \in 1 .. Len(models) |-> ModelQuota(models[i])],
         plan_type |-> Get2(data.plan_type, data.planType, "pro")]

\* a key that may be missing
Opt(values) == {<<>>} \cup {<<v>> : v \in values}

\* utilizations: 0, 1, between, and above 1
Utilizations == {0, 425, Milli, Milli + Milli \div 2}

Windows ==
    {Window(u, p, r[1], r[2], FALSE) :
        u \in Opt(Utilizations), p \in Opt({250}),
        r \in {<<<<>>, <<>>>>,
               << <<IsoText(DonutNow + 90, "Z")>>, <<>> >>,
               << <<EmptyText>>, <<IsoText(DonutNow + 200, "+05:30")>> >>}}
        \cup {Window(<<>>, <<>>, <<>>, <<>>, TRUE)}

CamelWindows ==
    {EmptyWindow,
     Window(<<Milli \div 2>>, <<>>, <<>>, <<IsoText(DonutNow, "-08:00")>>, FALSE)}

ModelLists ==
    {<<>>,
     <<ModelEntry(<<"opus">>, <<>>, <<300>>, <<>>),
       ModelEntry(<<>>, <<>>, <<>>, <<>>)>>}

Bodies ==
    [five_hour : Opt(Windows), fiveHour : Opt(CamelWindows),
     seven_day : Opt(Windows), sevenDay : Opt(CamelWindows),
     models : Opt(ModelLists), model_quotas : {<<>>},
     plan_type : Opt({"max"}), planType : Opt({"team"})]

InitParse ==
    /\ PieIdle
    /\ CountdownIdle
    /\ AuthIdle
    /\ AppIdle
    /\ CliIdle
    /\ PlanIdle
    /\ ConfigIdle
    /\ usage_json \in {<<body>> : body \in Bodies}
    /\ parsed = <<>>

\* return _parse_quota_response(data)
CallParseQuotaResponse ==
    /\ parsed = <<>>
    /\ parsed' = <<_parse_quota_response(usage_json[1])>>
    /\ UNCHANGED <<usage_json, cliVars, planVars, configVars, pieVars, authVars, appVars, countdownVars>>

NextParse == CallParseQuotaResponse

SpecParse == InitParse /\ [][NextParse]_vars

\* the window the parser reads: the snake-case key, else the camel-case key
WindowRead(snake, camel) ==
    IF snake # <<>> THEN snake[1] ELSE IF camel # <<>> THEN camel[1]
    ELSE EmptyWindow

\* the value read: utilization, else usage_pct, else 0
ValueRead(w) ==
    IF w.utilization # <<>> THEN w.utilization[1]
    ELSE IF w.usage_pct # <<>> THEN w.usage_pct[1] ELSE 0

\* the claim for one window and the two fields parsed from it
WindowParsed(w, pct, reset) ==
    /\ pct = 100 * (IF w = EmptyWindow THEN 0 ELSE ValueRead(w))
    /\ w = EmptyWindow => pct = 0 /\ reset = NoDatetime
    /\ (w.utilization # <<>> /\ w.utilization[1] \in 0 .. Milli) =>
           pct \in 0 .. 100 * Milli

\* C13: for each window (five_hour/fiveHour, seven_day/sevenDay) the usage
\* is 100 times the value read from utilization, else from usage_pct, else 0;
\* a missing or empty window gives usage 0 and no reset time; a utilization
\* in [0, 1] gives a percentage in [0, 100].
C13_UtilizationToPercent ==
    parsed # <<>> =>
        /\ WindowParsed(WindowRead(usage_json[1].five_hour,
                                   usage_json[1].fiveHour),
                        parsed[1].five_hour_usage_pct,
                        parsed[1].five_hour_reset_time)
        /\ WindowParsed(WindowRead(usage_json[1].seven_day,
                                   usage_json[1].sevenDay),
                        parsed[1].seven_day_usage_pct,
                        parsed[1].seven_day_reset_time)

\* the five-hour window came from the camel-case key with utilization 0.5
\* and was parsed to 50 percent; the seven-day window is missing
C13_Witness ==
    /\ parsed # <<>>
    /\ usage_json[1].five_hour = <<>>
    /\ usage_json[1].fiveHour # <<>>
    /\ usage_json[1].fiveHour[1].utilization = <<Milli \div 2>>
    /\ parsed[1].five_hour_usage_pct = 50 * Milli
    /\ parsed[1].five_hour_reset_time # NoDatetime
    /\ usage_json[1].seven_day = <<>>
    /\ usage_json[1].sevenDay = <<>>
    /\ parsed[1].seven_day_usage_pct = 0

-----------------------------------------------------------------------------
(* config.py: the configuration file.  save_config writes one line         *)
(* `key = text` per key and tomllib reads the lines back; texts and str    *)
(* values are sequences of characters.                                     *)

ConfigKeys == {"plan_type", "refresh_interval", "admin_api_key", "theme"}

\* DEFAULT_CONFIG
DEFAULT_CONFIG ==
    [plan_type |-> <<StrValue(<<"p", "r", "o">>)>>,
     refresh_interval |-> <<IntValue(5)>>,
     admin_api_key |-> <<StrValue(<<>>)>>,
     theme |-> <<>>]

\* f"{value}" of an int
IntText(n) == IF n < 0 THEN <<"-">> \o Digits(0 - n) ELSE Digits(n)

\* f'{key} = "{value}"': the str between quotes, as it is
Quoted(chars) == <<"\"">> \o chars \o <<"\"">>

\* the isinstance chain of save_config: the text of one value
TextOf(value) ==
    IF value.type = "str" THEN Quoted(value.chars)
    ELSE IF value.type = "bool"
         THEN (IF value.b THEN <<"t", "r", "u", "e">>
                          ELSE <<"f", "a", "l", "s", "e">>)
         ELSE IntText(value.n)

\* save_config(config)
save_config(config) ==
    [k \in ConfigKeys \cup {"exists"} |->
        IF k = "exists" THEN TRUE
        ELSE IF config[k] = <<>> THEN <<>>
        ELSE <<TextOf(config[k][1])>>]

TomlError == [type |-> "error", chars |-> <<>>, n |-> 0, b |-> FALSE]

\* tomllib: a basic string from its opening quote at text[1]; a quote ends
\* it and nothing may follow on the line; a backslash escapes a quote or a
\* backslash, and no other character of this model
RECURSIVE ParseBasicString(_, _, _)
ParseBasicString(text, i, acc) ==
    IF i > Len(text) THEN TomlError
    ELSE IF text[i] = "\""
         THEN (IF i = Len(text) THEN StrValue(acc) ELSE TomlError)
    ELSE IF text[i] = "\\"
         THEN (IF i + 1 <= Len(text) /\ text[i + 1] \in {"\"", "\\"}
               THEN ParseBasicString(text, i + 2, Append(acc, text[i + 1]))
               ELSE TomlError)
    ELSE ParseBasicString(text, i + 1, Append(acc, text[i]))

DigitValue(c) == CHOOSE d \in 0 .. 9 : DigitChars[d + 1] = c

IsDigits(text) ==
    /\ Len(text) > 0
    /\ \A i \in 1 .. Len(text) : \E d \in 0 .. 9 : DigitChars[d + 1] = text[i]
    /\ Len(text) > 1 => text[1] # "0"

\* tomllib: a decimal integer
ParseDigits(text) ==
    LET F[i \in 0 .. Len(text)] ==
            IF i = 0 THEN 0 ELSE 10 * F[i - 1] + DigitValue(text[i])
    IN  F[Len(text)]

\* tomllib: the value of a line
ParseValue(text) ==
    IF text = <<>> THEN TomlError
    ELSE IF text[1] = "\"" THEN ParseBasicString(text, 2, <<>>)
    ELSE IF text = <<"t", "r", "u", "e">> THEN BoolValue(TRUE)
    ELSE IF text = <<"f", "a", "l", "s", "e">> THEN BoolValue(FALSE)
    ELSE IF IsDigits(text) THEN IntValue(ParseDigits(text))
    ELSE IF text[1] = "-" /\ IsDigits(Tail(text))
         THEN IntValue(0 - ParseDigits(Tail(text)))
    ELSE TomlError

\* tomllib.load(f): TOMLDecodeError when a line does not parse
TomlDecodeError(file) ==
    \E k \in ConfigKeys : file[k] # <<>> /\ ParseValue(file[k][1]) = TomlError

\* load_config() when it returns: the defaults, updated from the file
load_config(file) ==
    [k \in ConfigKeys |->
        IF file.exists /\ file[k] # <<>> THEN <<ParseValue(file[k][1])>>
        ELSE DEFAULT_CONFIG[k]]

\* load_config() raises
LoadRaises(file) == file.exists /\ TomlDecodeError(file)

\* get_config_value(key)
get_config_value(file, key) ==
    IF LoadRaises(file)
    THEN [fn |-> "get", key |-> key, value |-> <<>>,
          error |-> "TOMLDecodeError"]
    ELSE [fn |-> "get", key |-> key, value |-> load_config(file)[key],
          error |-> None]

\* set_config_value(key, value): the file it leaves
set_config_value(file, key, value) ==
    IF LoadRaises(file) THEN file
    ELSE save_config([load_config(file) EXCEPT ![key] = <<value>>])

\* str values: plain ones, and ones with a quote or a backslash
StrValues ==
    {StrValue(<<>>), StrValue(<<"m", "a", "x">>),
     StrValue(<<"a", "\"", "b">>), StrValue(<<"a", "\\">>),
     StrValue(<<"\\", "\"">>), StrValue(<<"\\", "\\">>)}

ConfigValues ==
    StrValues \cup {IntValue(0 - 1), IntValue(30)}
              \cup {BoolValue(TRUE), BoolValue(FALSE)}

\* the keys set in the model
SetKeys == {"plan_type", "theme"}

InitConfig ==
    /\ PieIdle
    /\ CountdownIdle
    /\ AuthIdle
    /\ AppIdle
    /\ CliIdle
    /\ PlanIdle
    /\ ParseIdle
    /\ config_file \in
           {NoConfigFile,
            ConfigToml(TRUE, <<>>, <<<<"1", "0">>>>, <<>>, <<>>)}
    /\ config_call = NoConfigCall

\* set_config_value(key, value)
SetConfigValue(key, value) ==
    /\ config_file' = set_config_value(config_file, key, value)
    /\ config_call' =
           [fn |-> "set", key |-> key, value |-> <<value>>,
            error |-> IF LoadRaises(config_file) THEN "TOMLDecodeError"
                      ELSE None]
    /\ UNCHANGED <<cliVars, planVars, parseVars, pieVars, authVars, appVars, countdownVars>>

\* get_config_value(key)
GetConfigValue(key) ==
    /\ config_call' = get_config_value(config_file, key)
    /\ UNCHANGED <<config_file, cliVars, planVars, parseVars, pieVars,
                   authVars, appVars, countdownVars>>

NextConfig ==
    \/ \E key \in SetKeys : \E value \in ConfigValues :
           SetConfigValue(key, value)
    \/ \E key \in ConfigKeys : GetConfigValue(key)

SpecConfig == InitConfig /\ [][NextConfig]_vars

\* what get_config_value(key) would answer from a file
Answered(file, key) ==
    [value |-> get_config_value(file, key).value,
     error |-> get_config_value(file, key).error]

\* C14: after set_config_value(k, v) with a str, int or bool v,
\* get_config_value(k) returns v with its type, every other key answers what
\* it answered before, and load_config has the default keys plan_type,
\* refresh_interval and admin_api_key.
C14_ConfigRoundTrip ==
    [][config_call'.fn = "set" =>
          /\ config_call'.error = None
          /\ Answered(config_file', config_call'.key)
                 = [value |-> config_call'.value, error |-> None]
          /\ \A k \in ConfigKeys \ {config_call'.key} :
                 Answered(config_file', k) = Answered(config_file, k)
          /\ \A k \in {"plan_type", "refresh_interval", "admin_api_key"} :
                 load_config(config_file')[k] # <<>>]_vars

-----------------------------------------------------------------------------
(* Properties of the session refresh (Spec).                               *)

\* the prefix the claim gives to the message of each failure
PrefixOf(outcome) ==
    IF outcome \in {"401", "403"} THEN ""
    ELSE IF outcome \in {"status", "network"} THEN "Fetch error: "
    ELSE "Error: "

\* C15: a session refresh that fails ends with is_loading = False and a
\* non-empty error_message: the text of the exception as it is for a 401 or
\* 403, prefixed by "Fetch error: " for a network error or another status,
\* prefixed by "Error: " for any other exception; the start of the next
\* session refresh clears the message and a successful refresh leaves it empty.
C15_ErrorSurfacing ==
    [][\A i \in 1 .. Len(workers) :
          /\ \A outcome \in FetchErrors :
                 FetchDataRaises(i, outcome) =>
                     /\ header'.is_loading = FALSE
                     /\ header'.error_message.prefix = PrefixOf(outcome)
                     /\ header'.error_message.text = ErrorText(outcome)
                     /\ header'.error_message.text # ""
          /\ FetchDataStart(i) => header'.error_message = NoMessage
          /\ \A quota \in Quotas :
                 FetchDataReturns(i, quota) =>
                     /\ header'.is_loading = FALSE
                     /\ header'.error_message = NoMessage]_vars

\* a refresh failed on a network error after an earlier one had succeeded
C15_Witness ==
    /\ quota_data # NoQuota
    /\ header.is_loading = FALSE
    /\ header.error_message = Message("Fetch error: ", ErrorText("network"))
    /\ workers = <<>>

\* a session refresh waits in fetch_quota
RefreshFetching ==
    \E i \in 1 .. Len(workers) :
        workers[i].name = "refresh" /\ workers[i].pc = "fetching"

\* what a session refresh shows when it succeeds
displayed == <<quota_data, session_chart, stats_quota_data, last_refresh>>

\* a step of _fetch_data that finishes it without an exception
FetchDataCompletes ==
    \E i \in 1 .. Len(workers) :
        \/ \E quota \in Quotas : FetchDataReturns(i, quota)
        \/ FetchDataStart(i) /\ ~Truthy(get_oauth_token)

\* C18: a session refresh in which fetch_quota raises leaves app.quota_data,
\* the session chart, the stats panel's quota_data and _last_refresh as they
\* were before it started: they change neither when it starts, nor while it
\* waits, nor when it fails; _last_refresh changes only when _fetch_data
\* completes without raising.
C18_FailedRefreshFrame ==
    [][/\ \A i \in 1 .. Len(workers) :
              (FetchDataStart(i) /\ Truthy(get_oauth_token)) =>
                  UNCHANGED displayed
       /\ (RefreshFetching /\ ~FetchDataCompletes) => UNCHANGED displayed
       /\ \A i \in 1 .. Len(workers) : \A outcome \in FetchErrors :
              FetchDataRaises(i, outcome) => UNCHANGED displayed
       /\ last_refresh' # last_refresh => FetchDataCompletes]_vars

\* a refresh failed at a later time than the last one that completed, and
\* the data of that one is still shown
C18_Witness ==
    /\ header.error_message # NoMessage
    /\ quota_data # NoQuota
    /\ session_chart.usage_pct = quota_data.five_hour_usage_pct
    /\ last_refresh > 0
    /\ last_refresh < clock
    /\ workers = <<>>

\* what the weekly refresh writes
weekly_state == <<weekly_chart, last_weekly_refresh>>

\* everything of the application that the weekly refresh does not write
session_state ==
    <<mounted, has_charts, timers, header, quota_data, session_chart,
      stats_quota_data, last_refresh, clock>>

\* C19: _fetch_weekly changes only the weekly chart and _last_weekly_refresh,
\* and nothing when it fails: never the header, app.quota_data, the session
\* chart or the stats panel; _fetch_data never changes the weekly chart.
C19_DisjointWrites ==
    [][\A i \in 1 .. Len(workers) :
          /\ FetchWeeklyStart(i) => UNCHANGED <<session_state, weekly_state>>
          /\ FetchWeeklyRaises(i) => UNCHANGED <<session_state, weekly_state>>
          /\ \A quota \in Quotas :
                 FetchWeeklyReturns(i, quota) => UNCHANGED session_state
          /\ (\/ FetchDataStart(i)
              \/ \E quota \in Quotas : FetchDataReturns(i, quota)
              \/ \E outcome \in FetchErrors : FetchDataRaises(i, outcome))
                 => UNCHANGED weekly_state]_vars

\* the weekly refresh has updated its chart while the session refresh has
\* never completed
C19_Witness ==
    /\ last_weekly_refresh > 0
    /\ weekly_chart.label = WeeklyLabel
    /\ quota_data = NoQuota
    /\ session_chart = Chart(0, DefaultLabel, NoDatetime)
    /\ last_refresh = 0

-----------------------------------------------------------------------------
(* Properties of the refresh triggers (Spec, SpecLive).                    *)

\* a worker of this name is pending or waits in fetch_quota
Running(name) ==
    \E i \in 1 .. Len(workers) :
        workers[i].name = name /\ workers[i].pc \in {"pending", "fetching"}

\* C16: the r key forces a refresh of the dashboard: action_refresh leaves a
\* session fetch and a weekly fetch running, from which both charts are
\* updated and the header leaves the loading state when they return.
C16_KeyRefreshesBoth ==
    [][action_refresh => Running("refresh")' /\ Running("weekly-refresh")']_vars

\* C17: whenever a session refresh has put the header into the loading
\* state, the header eventually leaves it, under any interleaving of the
\* timers and the r key, every fetch that is not cancelled returning or
\* raising.
C17_LoadingEnds ==
    (RefreshFetching /\ header.is_loading) ~> (header.is_loading = FALSE)

-----------------------------------------------------------------------------
(* models.py: format_countdown and the remaining-seconds properties.       *)

\* the countdown is checked up to MaxDays days and some
MaxDays == 3

SecondsPerDay == 86400
SecondsPerHour == 3600

\* days = total_seconds // 86400
Days(s) == s \div SecondsPerDay

\* hours = (total_seconds % 86400) // 3600
Hours(s) == (s % SecondsPerDay) \div SecondsPerHour

\* all the minutes of the countdown
MinutesInAll(s) == s \div 60

\* minutes = (total_seconds % 3600) // 60
Minutes(s) == (s % SecondsPerHour) \div 60

\* format_countdown(total_seconds)
format_countdown(s) ==
    IF s <= 0 THEN <<"n", "o", "w">>
    ELSE IF Days(s) > 0
         THEN Digits(Days(s)) \o <<"d", " ">> \o Digits(Hours(s)) \o <<"h">>
    ELSE IF Hours(s) > 0
         THEN Digits(Hours(s)) \o <<"h", " ">> \o Digits(Minutes(s)) \o <<"m">>
    ELSE Digits(Minutes(s)) \o <<"m">>

\* int(x) of a number in 1/Milli: towards zero
IntOf(x) == IF x >= 0 THEN x \div Milli ELSE 0 - ((0 - x) \div Milli)

\* delta.total_seconds() in 1/Milli, frac being the part of the current
\* second that has passed
TotalSeconds(reset, utc, local, frac) ==
    (reset.wall - DatetimeNow(reset, utc, local).wall) * 60 * Milli - frac

\* QuotaData.five_hour_remaining_seconds / seven_day_remaining_seconds
remaining_seconds(reset, utc, local, frac) ==
    IF reset = NoDatetime THEN 0
    ELSE Max(0, IntOf(TotalSeconds(reset, utc, local, frac)))

SecondsInputs ==
    {0 - 90061, 0 - 1, 0} \cup
    {d * SecondsPerDay + h * SecondsPerHour + m * 60 + r :
        d \in 0 .. MaxDays, h \in {0, 1, 23}, m \in {0, 1, 59}, r \in {0, 1, 59}}

\* reset times: none, in the past, now, within the minute, and later
CountdownResets ==
    {NoDatetime} \cup
    {Aware(DonutNow + u + o, o) :
        u \in {0 - 90, 0 - 1, 0, 1, 59, 299, MaxDays * MinutesPerDay + 61},
        o \in {0, 5 * 60 + 30}} \cup
    {Naive(DonutNow + u) : u \in {0 - 1, 0, 61}}

InitCountdown ==
    /\ usage_pct = 0
    /\ label = DefaultLabel
    /\ reset_time \in CountdownResets
    /\ now_utc = DonutNow
    /\ local_off = 0
    /\ display = NotMounted
    /\ reset_str = <<>>
    /\ AuthIdle
    /\ AppIdle
    /\ CliIdle
    /\ PlanIdle
    /\ ParseIdle
    /\ ConfigIdle
    /\ total_seconds \in SecondsInputs
    /\ remaining = <<>>
    /\ countdown = <<>>

\* q.five_hour_remaining_seconds, read to be formatted
ReadRemainingSeconds(frac) ==
    /\ remaining = <<>>
    /\ countdown = <<>>
    /\ remaining' = <<remaining_seconds(reset_time, now_utc, local_off, frac)>>
    /\ total_seconds' = remaining_seconds(reset_time, now_utc, local_off, frac)
    /\ UNCHANGED countdown
    /\ UNCHANGED <<cliVars, planVars, parseVars, configVars, pieVars,
                   authVars, appVars>>

\* format_countdown(total_seconds)
CallFormatCountdown ==
    /\ countdown = <<>>
    /\ countdown' = <<format_countdown(total_seconds)>>
    /\ UNCHANGED <<total_seconds, remaining>>
    /\ UNCHANGED <<cliVars, planVars, parseVars, configVars, pieVars,
                   authVars, appVars>>

NextCountdown ==
    \/ \E frac \in {0, Milli \div 2} : ReadRemainingSeconds(frac)
    \/ CallFormatCountdown

SpecCountdown == InitCountdown /\ [][NextCountdown]_vars

\* the text the claim gives for days, hours and minutes
TwoLargestUnits(d, h, m) ==
    IF d > 0 THEN Digits(d) \o <<"d", " ">> \o Digits(h) \o <<"h">>
    ELSE IF h > 0 THEN Digits(h) \o <<"h", " ">> \o Digits(m) \o <<"m">>
    ELSE Digits(m) \o <<"m">>

\* the reset time is not after the current time
ResetPast == UtcOf(reset_time, local_off) <= now_utc

\* C20: format_countdown(s) is "now" iff s <= 0; for s > 0 it shows the two
\* largest units of s = days*86400 + hours*3600 + minutes*60 + rest with
\* hours < 24, minutes < 60, rest < 60: "{days}d {hours}h" when days > 0,
\* else "{hours}h {minutes}m" when hours > 0, else "{minutes}m"; the
\* remaining seconds are never negative, and 0 without a reset time or with
\* one that has passed.
C20_Countdown ==
    /\ countdown # <<>> =>
          /\ (countdown[1] = <<"n", "o", "w">>) = (total_seconds <= 0)
          /\ total_seconds > 0 =>
                 \E d \in 0 .. (MaxDays + 1), h \in 0 .. 23, m \in 0 .. 59 :
                     LET rest == total_seconds - d * 86400 - h * 3600 - m * 60
                     IN  /\ rest \in 0 .. 59
                         /\ countdown[1] = TwoLargestUnits(d, h, m)
    /\ remaining # <<>> =>
          /\ remaining[1] >= 0
          /\ (reset_time = NoDatetime \/ ResetPast) => remaining[1] = 0

\* a reset time a little over MaxDays days away gave the remaining seconds,
\* and they were formatted in days and hours
C20_Witness ==
    /\ remaining # <<>>
    /\ remaining[1] > MaxDays * 86400
    /\ countdown = <<Digits(MaxDays) \o <<"d", " ", "1", "h">>>>

=============================================================================
